---- MODULE Spec2Model ----
(***************************************************************************)
(* Model of the pinger service (main.go): the bounded-concurrency probe    *)
(* dispatcher handleRequest, the concurrencyLimit semaphore channel, and   *)
(* the two probe executors checkPing and checkHTTP.                        *)
(*                                                                         *)
(* Every inbound request runs handleRequest in its own goroutine.  The     *)
(* handler is cut into steps at the points where it can interleave with    *)
(* other handlers or with the cancellation of its own request context.     *)
(***************************************************************************)
EXTENDS Integers, Sequences, FiniteSets, TLC

(* ---------------------------------------------------------------------- *)
(* Bounds of the model                                                     *)
(* ---------------------------------------------------------------------- *)

\* capacity of the concurrencyLimit channel chosen at startup (limit, main)
Limit == 2

\* number of request goroutines: one more than the capacity
NumReqs == Limit + 1

Reqs == 1..NumReqs

(* ---------------------------------------------------------------------- *)
(* Strings that the code takes apart are sequences of characters           *)
(* ---------------------------------------------------------------------- *)

EmptyStr == << >>

HostH == <<"h">>

\* values of the host query parameter
Hosts == {EmptyStr, HostH}

\* values of the key query parameter ("" is an absent key)
Keys == {"", "secret"}

\* values the API_KEY environment variable takes at startup
ApiKeys == {"", "secret"}

\* values of the method query parameter ("" is an absent method)
Methods == {"", "http", "https"}

(* ---------------------------------------------------------------------- *)
(* Character-sequence helpers (strings, fmt, strconv, regexp)              *)
(* ---------------------------------------------------------------------- *)

HttpPrefix == <<"h", "t", "t", "p", ":", "/", "/">>

HttpsPrefix == <<"h", "t", "t", "p", "s", ":", "/", "/">>

\* strings.HasPrefix
HasPrefix(s, prefix) ==
    /\ Len(s) >= Len(prefix)
    /\ SubSeq(s, 1, Len(prefix)) = prefix

\* strings.TrimPrefix: s without the leading prefix, s itself when absent
TrimPrefix(s, prefix) ==
    IF HasPrefix(s, prefix) THEN SubSeq(s, Len(prefix) + 1, Len(s)) ELSE s

Digits == {"0", "1", "2", "3", "4", "5", "6", "7", "8", "9"}

DigitVal(c) ==
    CASE c = "0" -> 0 [] c = "1" -> 1 [] c = "2" -> 2 [] c = "3" -> 3
      [] c = "4" -> 4 [] c = "5" -> 5 [] c = "6" -> 6 [] c = "7" -> 7
      [] c = "8" -> 8 [] c = "9" -> 9

\* is position i of s the character c
CharAt(s, i, c) == i >= 1 /\ i <= Len(s) /\ s[i] = c

IsDigitAt(s, i) == i >= 1 /\ i <= Len(s) /\ s[i] \in Digits

\* \d+ from position i, greedy: the position after the run of digits (i when
\* there is no digit at i)
RECURSIVE DigitsEnd(_, _)
DigitsEnd(s, i) == IF IsDigitAt(s, i) THEN DigitsEnd(s, i + 1) ELSE i

\* \d+\.\d+ from position i: the position after the match, 0 when none
DecimalEnd(s, i) ==
    LET a == DigitsEnd(s, i)
        b == DigitsEnd(s, a + 1)
    IN  IF a > i /\ CharAt(s, a, ".") /\ b > a + 1 THEN b ELSE 0

\* /(\d+\.\d+)/(\d+\.\d+)/ anchored at position i: <<match, group 1, group 2>>
\* or the empty sequence when the pattern does not match there
MatchAt(s, i) ==
    LET e1 == DecimalEnd(s, i + 1)
        e2 == IF e1 = 0 THEN 0 ELSE DecimalEnd(s, e1 + 1)
    IN  IF /\ CharAt(s, i, "/")
           /\ e1 # 0 /\ CharAt(s, e1, "/")
           /\ e2 # 0 /\ CharAt(s, e2, "/")
        THEN <<SubSeq(s, i, e2), SubSeq(s, i + 1, e1 - 1),
               SubSeq(s, e1 + 1, e2 - 1)>>
        ELSE << >>

\* re.FindStringSubmatch: the leftmost match and its groups, empty when none
RECURSIVE FindFrom(_, _)
FindFrom(s, i) ==
    IF i > Len(s) THEN << >>
    ELSE IF MatchAt(s, i) # << >> THEN MatchAt(s, i)
    ELSE FindFrom(s, i + 1)

FindStringSubmatch(s) == FindFrom(s, 1)

\* value of a run of decimal digits
RECURSIVE DigitsVal(_)
DigitsVal(d) ==
    IF d = << >> THEN 0
    ELSE 10 * DigitsVal(SubSeq(d, 1, Len(d) - 1)) + DigitVal(d[Len(d)])

\* float64 values are kept as integers scaled by 10^FracDigits
FracDigits == 3

RECURSIVE Pow10(_)
Pow10(n) == IF n = 0 THEN 1 ELSE 10 * Pow10(n - 1)

Scale == Pow10(FracDigits)

\* strconv.ParseFloat of a string of the form \d+\.\d+, scaled (fraction
\* digits beyond FracDigits are dropped)
ParseFloat(str) ==
    LET dot  == DigitsEnd(str, 1)
        ip   == SubSeq(str, 1, dot - 1)
        fr   == SubSeq(str, dot + 1, Len(str))
        fr3  == IF Len(fr) > FracDigits THEN SubSeq(fr, 1, FracDigits) ELSE fr
    IN  DigitsVal(ip) * Scale + DigitsVal(fr3) * Pow10(FracDigits - Len(fr3))

(* ---------------------------------------------------------------------- *)
(* Probe executors                                                         *)
(* ---------------------------------------------------------------------- *)

\* a probe's return values: (result, err), err = "" is a nil error
Ok(v) == [result |-> v, err |-> ""]

\* the zero result returned beside an error
Zero == 0

Err(msg) == [result |-> Zero, err |-> msg]

\* mutant of checkPing: the parsed value is returned without the test
\* val <= 0
checkPingNoPositiveCheck(cancelled, run) ==
    IF cancelled \/ run.exit # 0
    THEN Err("ping failed: host unreachable or timeout")
    ELSE LET matches == FindStringSubmatch(run.output)
         IN  IF Len(matches) >= 3
             THEN Ok(ParseFloat(matches[3]))
             ELSE Err("could not parse ping output")

\* checkPing.  run is what the ping process did: its exit status and its
\* combined output.  A cancelled context kills the process (or refuses to
\* start it), so cmd.CombinedOutput returns an error.
checkPing(cancelled, run) ==
    IF cancelled \/ run.exit # 0
    THEN Err("ping failed: host unreachable or timeout")
    ELSE LET matches == FindStringSubmatch(run.output)
         IN  IF Len(matches) >= 3
             THEN LET val == ParseFloat(matches[3])
                  IN  IF val <= 0
                      THEN Err("invalid ping result: 0")
                      ELSE Ok(val)
             ELSE Err("could not parse ping output")

\* mutant of TargetURL: only the http:// prefix is trimmed
TargetURLHttpOnly(host, scheme) ==
    [scheme |-> scheme, host |-> TrimPrefix(host, HttpPrefix)]

\* the URL checkHTTP builds: fmt.Sprintf("%s://%s", scheme, host) after the
\* two TrimPrefix calls
TargetURL(host, scheme) ==
    LET h1 == TrimPrefix(host, HttpPrefix)
        h2 == TrimPrefix(h1, HttpsPrefix)
    IN  [scheme |-> scheme, host |-> h2]

\* checkHTTP.  net is what the network did with the HEAD request: a
\* transport error or a response with a status code.
checkHTTP(cancelled, host, scheme, net) ==
    IF cancelled THEN Err("context canceled")
    ELSE IF net.err # "" THEN Err(net.err)
    ELSE Ok(net.status)

(* ---------------------------------------------------------------------- *)
(* What the environment can answer to a probe                              *)
(* ---------------------------------------------------------------------- *)

\* "= 1.5/2.5/3.5/0.5": the statistics of the summary line of ping -q
\* (rtt min/avg/max/mdev = 1.5/2.5/3.5/0.5 ms)
PingSummary == <<"=", " ", "1", ".", "5", "/", "2", ".", "5", "/",
                 "3", ".", "5", "/", "0", ".", "5", " ", "m", "s">>

\* a summary line without the statistics (all packets lost, exit status 0
\* is still possible for other ping builds)
PingNoStats == <<"=", " ", "m", "s">>

PingRuns == {[exit |-> 1, output |-> EmptyStr],
             [exit |-> 0, output |-> PingSummary],
             [exit |-> 0, output |-> PingNoStats]}

\* a transport error, or a response with status 204
NetOutcomes == {[err |-> "dial tcp: connection refused", status |-> 0],
                [err |-> "", status |-> 204]}

(* ---------------------------------------------------------------------- *)
(* State                                                                   *)
(* ---------------------------------------------------------------------- *)

VARIABLES
    apiKey,            \* package variable apiKey
    concurrencyLimit,  \* number of elements buffered in the channel
    pc,                \* position of each handler goroutine
    query,             \* r.URL.Query() of each request
    ctxDone,           \* r.Context().Done() is closed
    holds,             \* the deferred release is registered
    probe,             \* the probe call in progress or returned
    responses,         \* what each handler wrote to its ResponseWriter
    hist,              \* history of each request (observation only)
    call               \* one call of a probe executor on its own

vars == <<apiKey, concurrencyLimit, pc, query, ctxDone, holds, probe,
          responses, hist, call>>

NoQuery == [key |-> "", host |-> EmptyStr, method |-> ""]

NoURL == [scheme |-> "", host |-> EmptyStr]

NoProbe == [fn |-> "none", type |-> "", url |-> NoURL, state |-> "none",
            result |-> 0, err |-> ""]

\* gate: how the select ended; full: no room in the channel when the select
\* ran; acquires, releases, probes: counters of this request
NoHist == [gate |-> "none", full |-> FALSE,
           acquires |-> 0, releases |-> 0, probes |-> 0]

\* no probe executor is called on its own.  fn, state: the executor and
\* whether it has returned; cancelled, run, host, scheme, net: its
\* arguments and what the environment answers; stats, prefixes, base: how
\* the ping output and the host were put together; url, result, err: what
\* the executor computed; written: the response the handler builds from it
NoCall == [fn |-> "none", state |-> "none", cancelled |-> FALSE,
           run |-> [exit |-> 0, output |-> EmptyStr], stats |-> << >>,
           host |-> EmptyStr, prefixes |-> << >>, base |-> EmptyStr,
           scheme |-> "", net |-> [err |-> "", status |-> 0],
           url |-> NoURL, result |-> 0, err |-> "", written |-> << >>]

Init ==
    /\ apiKey \in ApiKeys
    /\ concurrencyLimit = 0
    /\ pc = [r \in Reqs |-> "idle"]
    /\ query = [r \in Reqs |-> NoQuery]
    /\ ctxDone = [r \in Reqs |-> FALSE]
    /\ holds = [r \in Reqs |-> FALSE]
    /\ probe = [r \in Reqs |-> NoProbe]
    /\ responses = [r \in Reqs |-> << >>]
    /\ hist = [r \in Reqs |-> NoHist]
    /\ call = NoCall

(* ---------------------------------------------------------------------- *)
(* The client                                                              *)
(* ---------------------------------------------------------------------- *)

\* the originator disconnects: the request context is cancelled.  The
\* handler reads the context in the select and inside the probe only; a
\* cancellation before the handler starts is an input of Begin, and one
\* after the probe has returned is never read.
Cancel(r) ==
    /\ pc[r] \in {"gate", "probing"}
    /\ ~ctxDone[r]
    /\ ctxDone' = [ctxDone EXCEPT ![r] = TRUE]
    /\ UNCHANGED <<call, apiKey, concurrencyLimit, pc, query, holds, probe,
                   responses, hist>>

(* ---------------------------------------------------------------------- *)
(* handleRequest                                                           *)
(* ---------------------------------------------------------------------- *)

StatusOK == 200

StatusBadRequest == 400

StatusForbidden == 403

StatusServiceUnavailable == 503

\* sendError: WriteHeader(status), then the JSON object {"error": msg}
sendError(status, msg) == [status |-> status, body |-> [error |-> msg]]

\* mutant of AuthFailed: a request without a key skips the comparison
AuthFailedSkipsEmptyKey(userKey) ==
    apiKey # "" /\ userKey # "" /\ userKey # apiKey

\* apiKey != "" && userKey != apiKey
AuthFailed(userKey) == apiKey # "" /\ userKey # apiKey

\* mutant of HostMissing: the host is never validated
HostNeverMissing(host) == FALSE

\* host == ""
HostMissing(host) == host = EmptyStr

\* mutant of Precheck: the host is validated before the key is checked
PrecheckHostFirst(userKey, host) ==
    IF HostMissing(host)
    THEN <<sendError(StatusBadRequest, "host required")>>
    ELSE IF AuthFailed(userKey)
    THEN <<sendError(StatusForbidden, "Auth failed")>>
    ELSE << >>

\* 1. API Key Check and 2. Parameter Validation: what the handler answers
\* before it reaches the select, the empty sequence when it reaches it
Precheck(userKey, host) ==
    IF AuthFailed(userKey)
    THEN <<sendError(StatusForbidden, "Auth failed")>>
    ELSE IF HostMissing(host)
    THEN <<sendError(StatusBadRequest, "host required")>>
    ELSE << >>

\* the server calls handleRequest in a new goroutine, with the query (k, h,
\* m) and a context that is already cancelled (c) or not; requests are
\* numbered in the order of their arrival.  The handler runs up to the select.
Begin(r, k, h, m, c) ==
    /\ pc[r] = "idle"
    /\ \A q \in Reqs : q < r => pc[q] # "idle"
    /\ query' = [query EXCEPT ![r] = [key |-> k, host |-> h, method |-> m]]
    /\ ctxDone' = [ctxDone EXCEPT ![r] = c]
    /\ responses' = [responses EXCEPT ![r] = Precheck(k, h)]
    /\ pc' = [pc EXCEPT ![r] = IF Precheck(k, h) = << >> THEN "gate" ELSE "done"]
    /\ UNCHANGED <<call, apiKey, concurrencyLimit, holds, probe, hist>>

\* 3. Concurrency Limiting: the select statement.  A case is ready when its
\* channel operation can proceed; select takes one of the ready cases, any
\* of them, and the default case only when none is ready.

\* mutant of SendReady: the channel was made one element too large
SendReadyOffByOne == concurrencyLimit <= Limit

\* case concurrencyLimit <- struct{}{}: the buffer has room
SendReady == concurrencyLimit < Limit

\* mutant of DoneReady: the select has no case for the request context
DoneNeverReady(r) == FALSE

\* case <-r.Context().Done(): the channel is closed
DoneReady(r) == ctxDone[r]

\* what the select found, for the history
Consulted(r, how) ==
    [hist EXCEPT ![r].gate = how,
                 ![r].full = ~SendReady,
                 ![r].acquires = @ + (IF how = "admitted" THEN 1 ELSE 0)]

\* mutant of GateAcquire: the send does not wait for room in the channel
GateAcquireNoGuard(r) ==
    /\ pc[r] = "gate"
    /\ concurrencyLimit' = concurrencyLimit + 1
    /\ holds' = [holds EXCEPT ![r] = TRUE]
    /\ hist' = Consulted(r, "admitted")
    /\ pc' = [pc EXCEPT ![r] = "exec"]
    /\ UNCHANGED <<call, apiKey, query, ctxDone, probe, responses>>

\* slot acquired, release deferred to the function's exit
GateAcquire(r) ==
    /\ pc[r] = "gate"
    /\ SendReady
    /\ concurrencyLimit' = concurrencyLimit + 1
    /\ holds' = [holds EXCEPT ![r] = TRUE]
    /\ hist' = Consulted(r, "admitted")
    /\ pc' = [pc EXCEPT ![r] = "exec"]
    /\ UNCHANGED <<call, apiKey, query, ctxDone, probe, responses>>

\* mutant of GateCtxDone: the release is deferred before the select, so the
\* abandoned handler receives from the channel as it returns
GateCtxDoneReleases(r) ==
    /\ pc[r] = "gate"
    /\ DoneReady(r)
    /\ concurrencyLimit > 0
    /\ concurrencyLimit' = concurrencyLimit - 1
    /\ hist' = Consulted(r, "abandoned")
    /\ pc' = [pc EXCEPT ![r] = "done"]
    /\ UNCHANGED <<call, apiKey, query, ctxDone, holds, probe, responses>>

\* mutant of GateCtxDone: the case has no return, the handler goes on to
\* the probe without a slot
GateCtxDoneFallsThrough(r) ==
    /\ pc[r] = "gate"
    /\ DoneReady(r)
    /\ hist' = Consulted(r, "abandoned")
    /\ pc' = [pc EXCEPT ![r] = "exec"]
    /\ UNCHANGED <<call, apiKey, concurrencyLimit, query, ctxDone, holds, probe,
                   responses>>

\* client disconnected: return without a response
GateCtxDone(r) ==
    /\ pc[r] = "gate"
    /\ DoneReady(r)
    /\ hist' = Consulted(r, "abandoned")
    /\ pc' = [pc EXCEPT ![r] = "done"]
    /\ UNCHANGED <<call, apiKey, concurrencyLimit, query, ctxDone, holds, probe,
                   responses>>

\* mutant of GateDefault: the select has no default case, the handler
\* waits until a case is ready
GateDefaultMissing(r) ==
    /\ pc[r] = "gate"
    /\ FALSE
    /\ UNCHANGED vars

\* mutant of GateDefault: the overload answer does not wait for the channel
\* to be full
GateDefaultEager(r) ==
    /\ pc[r] = "gate"
    /\ ~DoneReady(r)
    /\ responses' = [responses EXCEPT
           ![r] = Append(@, sendError(StatusServiceUnavailable,
                                      "Server is too busy, try again later"))]
    /\ hist' = Consulted(r, "busy")
    /\ pc' = [pc EXCEPT ![r] = "done"]
    /\ UNCHANGED <<call, apiKey, concurrencyLimit, query, ctxDone, holds,
                   probe>>

\* mutant of GateDefault: the default case returns without sendError
GateDefaultSilent(r) ==
    /\ pc[r] = "gate"
    /\ ~SendReady
    /\ ~DoneReady(r)
    /\ hist' = Consulted(r, "busy")
    /\ pc' = [pc EXCEPT ![r] = "done"]
    /\ UNCHANGED <<call, apiKey, concurrencyLimit, query, ctxDone, holds, probe,
                   responses>>

\* default: all slots busy
GateDefault(r) ==
    /\ pc[r] = "gate"
    /\ ~SendReady
    /\ ~DoneReady(r)
    /\ responses' = [responses EXCEPT
           ![r] = Append(@, sendError(StatusServiceUnavailable,
                                      "Server is too busy, try again later"))]
    /\ hist' = Consulted(r, "busy")
    /\ pc' = [pc EXCEPT ![r] = "done"]
    /\ UNCHANGED <<call, apiKey, concurrencyLimit, query, ctxDone, holds,
                   probe>>

\* mutant of SelectMethod: the method is not defaulted to ping
SelectMethodNoDefault(method) == method

\* 4. Method Selection
SelectMethod(method) ==
    IF method # "http" /\ method # "https" THEN "ping" ELSE method

\* 5. Execution: the switch calls one probe with the request context
StartProbe(r) ==
    /\ pc[r] = "exec"
    /\ LET method == SelectMethod(query[r].method)
       IN  probe' = [probe EXCEPT ![r] =
              CASE method = "http" ->
                     [NoProbe EXCEPT !.fn = "checkHTTP", !.type = method,
                         !.url = TargetURL(query[r].host, "http"),
                         !.state = "running"]
                [] method = "https" ->
                     [NoProbe EXCEPT !.fn = "checkHTTP", !.type = method,
                         !.url = TargetURL(query[r].host, "https"),
                         !.state = "running"]
                [] OTHER ->
                     [NoProbe EXCEPT !.fn = "checkPing", !.type = method,
                         !.state = "running"]]
    /\ hist' = [hist EXCEPT ![r].probes = @ + 1]
    /\ pc' = [pc EXCEPT ![r] = "probing"]
    /\ UNCHANGED <<call, apiKey, concurrencyLimit, query, ctxDone, holds,
                   responses>>

\* checkPing returns
PingReturn(r, run) ==
    /\ pc[r] = "probing"
    /\ probe[r].fn = "checkPing"
    /\ LET out == checkPing(ctxDone[r], run)
       IN  probe' = [probe EXCEPT ![r].state = "returned",
                                  ![r].result = out.result,
                                  ![r].err = out.err]
    /\ pc' = [pc EXCEPT ![r] = "respond"]
    /\ UNCHANGED <<call, apiKey, concurrencyLimit, query, ctxDone, holds,
                   responses, hist>>

\* checkHTTP returns
HTTPReturn(r, net) ==
    /\ pc[r] = "probing"
    /\ probe[r].fn = "checkHTTP"
    /\ LET out == checkHTTP(ctxDone[r], query[r].host, probe[r].url.scheme, net)
       IN  probe' = [probe EXCEPT ![r].state = "returned",
                                  ![r].result = out.result,
                                  ![r].err = out.err]
    /\ pc' = [pc EXCEPT ![r] = "respond"]
    /\ UNCHANGED <<call, apiKey, concurrencyLimit, query, ctxDone, holds,
                   responses, hist>>

\* 6. Response: the Response struct the handler fills in
MakeResponse(host, method, result, err) ==
    IF err # ""
    THEN [Host |-> host, Type |-> method, Result |-> 0, Error |-> err]
    ELSE [Host |-> host, Type |-> method, Result |-> result, Error |-> ""]

\* mutant of Encode: the result tag has omitempty too, a zero result is
\* left out
EncodeOmitZeroResult(resp) ==
    IF resp.Error = ""
    THEN [host |-> resp.Host, type |-> resp.Type, result |-> resp.Result]
    ELSE IF resp.Result = 0
    THEN [host |-> resp.Host, type |-> resp.Type, error |-> resp.Error]
    ELSE [host |-> resp.Host, type |-> resp.Type, result |-> resp.Result,
          error |-> resp.Error]

\* json.NewEncoder(w).Encode(resp): the struct tags; error has omitempty
Encode(resp) ==
    IF resp.Error = ""
    THEN [host |-> resp.Host, type |-> resp.Type, result |-> resp.Result]
    ELSE [host |-> resp.Host, type |-> resp.Type, result |-> resp.Result,
          error |-> resp.Error]

\* mutant of Respond: a probe error is answered with sendError(500, ...)
RespondErrorStatus(r) ==
    /\ pc[r] = "respond"
    /\ LET resp == MakeResponse(query[r].host, probe[r].type,
                                probe[r].result, probe[r].err)
       IN  responses' = [responses EXCEPT
              ![r] = Append(@, IF probe[r].err # ""
                               THEN sendError(500, probe[r].err)
                               ELSE [status |-> StatusOK, body |-> Encode(resp)])]
    /\ pc' = [pc EXCEPT ![r] = "return"]
    /\ UNCHANGED <<call, apiKey, concurrencyLimit, query, ctxDone, holds,
                   probe, hist>>

\* the first write to w sends the header with status 200
Respond(r) ==
    /\ pc[r] = "respond"
    /\ LET resp == MakeResponse(query[r].host, probe[r].type,
                                probe[r].result, probe[r].err)
       IN  responses' = [responses EXCEPT
              ![r] = Append(@, [status |-> StatusOK, body |-> Encode(resp)])]
    /\ pc' = [pc EXCEPT ![r] = "return"]
    /\ UNCHANGED <<call, apiKey, concurrencyLimit, query, ctxDone, holds,
                   probe, hist>>

\* mutant of Release: the receive is not deferred, it stands on the path
\* of a successful probe only
ReleaseOnSuccessOnly(r) ==
    /\ pc[r] = "return"
    /\ holds[r]
    /\ concurrencyLimit > 0
    /\ IF probe[r].err = ""
       THEN /\ concurrencyLimit' = concurrencyLimit - 1
            /\ holds' = [holds EXCEPT ![r] = FALSE]
            /\ hist' = [hist EXCEPT ![r].releases = @ + 1]
       ELSE UNCHANGED <<concurrencyLimit, holds, hist>>
    /\ pc' = [pc EXCEPT ![r] = "done"]
    /\ UNCHANGED <<call, apiKey, query, ctxDone, probe, responses>>

\* the deferred func() { <-concurrencyLimit }() runs as the handler returns
Release(r) ==
    /\ pc[r] = "return"
    /\ holds[r]
    /\ concurrencyLimit > 0
    /\ concurrencyLimit' = concurrencyLimit - 1
    /\ holds' = [holds EXCEPT ![r] = FALSE]
    /\ hist' = [hist EXCEPT ![r].releases = @ + 1]
    /\ pc' = [pc EXCEPT ![r] = "done"]
    /\ UNCHANGED <<call, apiKey, query, ctxDone, probe, responses>>

Next ==
    \/ \E r \in Reqs, k \in Keys, h \in Hosts, m \in Methods, c \in BOOLEAN :
          Begin(r, k, h, m, c)
    \/ \E r \in Reqs : Cancel(r)
    \/ \E r \in Reqs : GateAcquire(r)
    \/ \E r \in Reqs : GateCtxDone(r)
    \/ \E r \in Reqs : GateDefault(r)
    \/ \E r \in Reqs : StartProbe(r)
    \/ \E r \in Reqs, run \in PingRuns : PingReturn(r, run)
    \/ \E r \in Reqs, net \in NetOutcomes : HTTPReturn(r, net)
    \/ \E r \in Reqs : Respond(r)
    \/ \E r \in Reqs : Release(r)

Spec == Init /\ [][Next]_vars

\* the select of r: one of its three ways out
GateStep(r) == GateAcquire(r) \/ GateCtxDone(r) \/ GateDefault(r)

\* any step of the handler goroutine of r after it has started
HandlerStep(r) ==
    \/ GateStep(r)
    \/ StartProbe(r)
    \/ \E run \in PingRuns : PingReturn(r, run)
    \/ \E net \in NetOutcomes : HTTPReturn(r, net)
    \/ Respond(r)
    \/ Release(r)

\* the Go scheduler runs every runnable goroutine, and every probe returns
\* (ping -c 3 -W 2 ends, the http.Client has a 5 s timeout, both are bound
\* to the request context)
Fairness == \A r \in Reqs : WF_vars(HandlerStep(r))

\* the service started with a credential (with one, requests of every kind
\* occur: refused, invalid, rejected, abandoned and admitted)
FairInit == Init /\ apiKey # ""

FairSpec == FairInit /\ [][Next]_vars /\ Fairness

(* ---------------------------------------------------------------------- *)
(* The probe executors called on their own, over a wider range of ping     *)
(* outputs and host strings than the requests of Spec carry                *)
(* ---------------------------------------------------------------------- *)

\* concatenation of a sequence of strings
RECURSIVE Concat(_)
Concat(ss) == IF ss = << >> THEN << >> ELSE Head(ss) \o Concat(Tail(ss))

\* the decimal numbers ping prints: 0.0, 2.5, 12.25, 0.125
Decimals == {<<"0", ".", "0">>, <<"2", ".", "5">>,
             <<"1", "2", ".", "2", "5">>, <<"0", ".", "1", "2", "5">>}

Slash == <<"/">>

\* iputils: rtt min/avg/max/mdev = a/b/c/d ms
RttLabel == <<"r", "t", "t", " ", "m", "i", "n", "/", "a", "v", "g", "/",
              "m", "a", "x", "/", "m", "d", "e", "v", " ", "=", " ">>

\* busybox: round-trip min/avg/max = a/b/c ms
RoundTripLabel == <<"r", "o", "u", "n", "d", "-", "t", "r", "i", "p", " ",
                    "m", "i", "n", "/", "a", "v", "g", "/", "m", "a", "x",
                    " ", "=", " ">>

Unit == <<" ", "m", "s">>

\* the summary line that carries the statistics st (four numbers for
\* iputils, three for busybox, none when every packet was lost)
SummaryLine(st) ==
    IF Len(st) = 4
    THEN Concat(<<RttLabel, st[1], Slash, st[2], Slash, st[3], Slash, st[4],
                  Unit>>)
    ELSE IF Len(st) = 3
    THEN Concat(<<RoundTripLabel, st[1], Slash, st[2], Slash, st[3], Unit>>)
    ELSE EmptyStr

PingStats ==
    {<<a, b, c, d>> : a \in Decimals, b \in Decimals, c \in Decimals,
                      d \in {<<"0", ".", "0">>, <<"2", ".", "5">>}}
    \cup {<<a, b, c>> : a \in {<<"2", ".", "5">>}, b \in Decimals,
                        c \in Decimals}
    \cup {<< >>}

\* the scheme prefixes a caller may put before the host, up to two of them
PrefixLists ==
    {<< >>} \cup {<<p>> : p \in {HttpPrefix, HttpsPrefix}}
            \cup {<<p, q>> : p \in {HttpPrefix, HttpsPrefix},
                             q \in {HttpPrefix, HttpsPrefix}}

\* a non-empty host parameter: prefixes before a base
HostsWithPrefixes ==
    {[prefixes |-> ps, base |-> b] :
        ps \in PrefixLists, b \in {HostH, EmptyStr}}
    \ {[prefixes |-> << >>, base |-> EmptyStr]}

PingCalls ==
    {[NoCall EXCEPT !.fn = "checkPing", !.state = "called",
                    !.cancelled = c, !.host = HostH, !.base = HostH,
                    !.run = [exit |-> e, output |-> SummaryLine(st)],
                    !.stats = st] :
        c \in BOOLEAN, e \in {0, 1}, st \in PingStats}

HTTPCalls ==
    {[NoCall EXCEPT !.fn = "checkHTTP", !.state = "called",
                    !.cancelled = c, !.scheme = sch, !.net = n,
                    !.host = Concat(h.prefixes) \o h.base,
                    !.prefixes = h.prefixes, !.base = h.base] :
        c \in BOOLEAN, sch \in {"http", "https"}, n \in NetOutcomes,
        h \in HostsWithPrefixes}

UnitInit ==
    /\ apiKey = ""
    /\ concurrencyLimit = 0
    /\ pc = [r \in Reqs |-> "idle"]
    /\ query = [r \in Reqs |-> NoQuery]
    /\ ctxDone = [r \in Reqs |-> FALSE]
    /\ holds = [r \in Reqs |-> FALSE]
    /\ probe = [r \in Reqs |-> NoProbe]
    /\ responses = [r \in Reqs |-> << >>]
    /\ hist = [r \in Reqs |-> NoHist]
    /\ call \in PingCalls \cup HTTPCalls

\* result, err = checkPing(ctx, host), then the response of the handler
UnitPing ==
    /\ call.fn = "checkPing"
    /\ call.state = "called"
    /\ LET out == checkPing(call.cancelled, call.run)
           resp == MakeResponse(call.host, "ping", out.result, out.err)
       IN  call' = [call EXCEPT !.state = "returned",
                                !.result = out.result,
                                !.err = out.err,
                                !.written = <<[status |-> StatusOK,
                                               body |-> Encode(resp)]>>]
    /\ UNCHANGED <<apiKey, concurrencyLimit, pc, query, ctxDone, holds,
                   probe, responses, hist>>

\* result, err = checkHTTP(ctx, host, scheme), then the response of the
\* handler
UnitHTTP ==
    /\ call.fn = "checkHTTP"
    /\ call.state = "called"
    /\ LET out == checkHTTP(call.cancelled, call.host, call.scheme, call.net)
           resp == MakeResponse(call.host, call.scheme, out.result, out.err)
       IN  call' = [call EXCEPT !.state = "returned",
                                !.url = TargetURL(call.host, call.scheme),
                                !.result = out.result,
                                !.err = out.err,
                                !.written = <<[status |-> StatusOK,
                                               body |-> Encode(resp)]>>]
    /\ UNCHANGED <<apiKey, concurrencyLimit, pc, query, ctxDone, holds,
                   probe, responses, hist>>

UnitNext == UnitPing \/ UnitHTTP

UnitSpec == UnitInit /\ [][UnitNext]_vars

(* ---------------------------------------------------------------------- *)
(* Observations used by the properties                                     *)
(* ---------------------------------------------------------------------- *)

\* the requests that hold a slot
Holders == {r \in Reqs : holds[r]}

Admitted == {r \in Reqs : hist[r].gate = "admitted"}

Busy == {r \in Reqs : hist[r].gate = "busy"}

Abandoned == {r \in Reqs : hist[r].gate = "abandoned"}

\* no request has released a slot yet
NoReleaseYet == \A r \in Reqs : hist[r].releases = 0

\* the status codes of the responses a request has emitted
Statuses(r) == {responses[r][i].status : i \in 1..Len(responses[r])}

\* the request has emitted exactly one response, with this status
AnsweredWith(r, status) ==
    Len(responses[r]) = 1 /\ responses[r][1].status = status

(* ---------------------------------------------------------------------- *)
(* C1                                                                      *)
(* ---------------------------------------------------------------------- *)

\* C1: in every reachable state the number of slots held in the
\* concurrencyLimit gate is between 0 and the capacity fixed at startup, and
\* it is the number of requests holding a slot.
C1_SlotsWithinCapacity ==
    /\ concurrencyLimit >= 0
    /\ concurrencyLimit <= Limit
    /\ Cardinality(Holders) = concurrencyLimit

\* the gate is full and a further request was turned away
C1_Witness ==
    /\ concurrencyLimit = Limit
    /\ Cardinality(Holders) = Limit
    /\ Busy # {}

(* ---------------------------------------------------------------------- *)
(* C2                                                                      *)
(* ---------------------------------------------------------------------- *)

\* C2: a request admitted by the gate releases its slot exactly once on
\* every exit path after admission (it holds the slot until it returns and
\* has released once when it is done); a request that was not admitted
\* never acquires, never holds and never releases.
C2_ReleaseExactlyOnce ==
    \A r \in Reqs :
        /\ hist[r].acquires = (IF r \in Admitted THEN 1 ELSE 0)
        /\ hist[r].releases <= hist[r].acquires
        /\ holds[r] <=> (hist[r].acquires = 1 /\ hist[r].releases = 0)
        /\ pc[r] = "done" => hist[r].releases = hist[r].acquires

\* three exits at once: an admitted request that ended after a successful
\* probe, one that ended after a probe error under a cancelled context, and
\* a request that was turned away with 503; the first two released once, the
\* third never
C2_Witness ==
    \E a, b, c \in Reqs :
        /\ pc[a] = "done" /\ a \in Admitted /\ probe[a].err = ""
        /\ hist[a].releases = 1
        /\ pc[b] = "done" /\ b \in Admitted /\ probe[b].err # "" /\ ctxDone[b]
        /\ hist[b].releases = 1
        /\ pc[c] = "done" /\ c \in Busy /\ hist[c].releases = 0

(* ---------------------------------------------------------------------- *)
(* C3                                                                      *)
(* ---------------------------------------------------------------------- *)

\* C3: with all slots free at the start, when Limit + 1 authorized, valid,
\* never cancelled requests have all consulted the gate before any of them
\* released its slot, exactly Limit of them were admitted and exactly one
\* was answered 503.
C3_OverlapPrecondition ==
    /\ \A r \in Reqs : hist[r].gate # "none" /\ ~ctxDone[r]
    /\ NoReleaseYet

C3_OneRejectionOfLimitPlusOne ==
    C3_OverlapPrecondition =>
        /\ Cardinality(Admitted) = Limit
        /\ Cardinality(Busy) = 1
        /\ \A r \in Busy : AnsweredWith(r, StatusServiceUnavailable)
        /\ \A r \in Admitted : StatusServiceUnavailable \notin Statuses(r)

C3_Witness ==
    /\ C3_OverlapPrecondition
    /\ Cardinality(Admitted) = Limit
    /\ \E r \in Busy : AnsweredWith(r, StatusServiceUnavailable)

(* ---------------------------------------------------------------------- *)
(* C4                                                                      *)
(* ---------------------------------------------------------------------- *)

\* the select of request r runs in this step
Consults(r) == pc[r] = "gate" /\ pc'[r] # "gate"

\* request r leaves the select abandoned: no slot, no probe, no response
LeavesAbandoned(r) ==
    /\ hist'[r].gate = "abandoned"
    /\ pc'[r] = "done"
    /\ ~holds'[r]
    /\ concurrencyLimit' = concurrencyLimit
    /\ hist'[r].probes = 0
    /\ probe'[r] = NoProbe
    /\ responses'[r] = << >>

\* C4: if the request context is already cancelled when handleRequest
\* consults the gate, the request is neither admitted nor rejected: it takes
\* no slot, runs no probe and emits no response, whether or not a slot is
\* free at that moment.
C4_CancelledNeverAdmitted ==
    [][\A r \in Reqs : (Consults(r) /\ ctxDone[r]) => LeavesAbandoned(r)]_vars

(* ---------------------------------------------------------------------- *)
(* C5                                                                      *)
(* ---------------------------------------------------------------------- *)

\* C5: when all Limit slots are held and the request context is cancelled
\* before the request consults the gate, the request emits no response (no
\* 503 in particular) and takes no slot.
C5_CancelledWhileFullIsSilent ==
    [][\A r \in Reqs :
          (Consults(r) /\ ctxDone[r] /\ concurrencyLimit = Limit)
              => LeavesAbandoned(r)]_vars

\* a request was abandoned at a full gate and has emitted nothing
C5_Witness ==
    \E r \in Abandoned :
        /\ hist[r].full
        /\ ctxDone[r]
        /\ pc[r] = "done"
        /\ responses[r] = << >>
        /\ hist[r].acquires = 0

(* ---------------------------------------------------------------------- *)
(* C6                                                                      *)
(* ---------------------------------------------------------------------- *)

\* the handler of r has started, a credential is configured and the key of
\* the request differs from it
KeyMismatch(r) ==
    pc[r] # "idle" /\ apiKey # "" /\ query[r].key # apiKey

\* no probe was invoked for r and the gate was not consulted
Untouched(r) ==
    /\ hist[r].gate = "none"
    /\ hist[r].acquires = 0
    /\ ~holds[r]
    /\ hist[r].probes = 0
    /\ probe[r] = NoProbe

\* C6: every request made while a non-empty credential is configured and
\* whose key differs from it is answered 403, no probe is invoked for it and
\* the gate is not consulted, whatever its host, method and context and
\* whatever the gate's occupancy.
C6_MismatchIsForbidden ==
    \A r \in Reqs :
        KeyMismatch(r) =>
            /\ pc[r] = "done"
            /\ AnsweredWith(r, StatusForbidden)
            /\ Untouched(r)

\* a 403 for a request with a host, under a cancelled context, while the
\* gate is full
C6_Witness ==
    \E r \in Reqs :
        /\ KeyMismatch(r)
        /\ query[r].host # EmptyStr
        /\ ctxDone[r]
        /\ concurrencyLimit = Limit
        /\ AnsweredWith(r, StatusForbidden)

(* ---------------------------------------------------------------------- *)
(* C7                                                                      *)
(* ---------------------------------------------------------------------- *)

\* the handler of r has started and the host parameter is empty
EmptyHost(r) == pc[r] # "idle" /\ query[r].host = EmptyStr

\* C7 as stated: every request with an empty host parameter is answered
\* 400 whatever its method, and the gate is not touched.
C7_EmptyHostIsBadRequest ==
    \A r \in Reqs :
        EmptyHost(r) => AnsweredWith(r, StatusBadRequest) /\ Untouched(r)

\* C7 amended: every request with an empty host parameter that passes the
\* key check (no credential is configured, or its key matches) is answered
\* 400 whatever its method, and the gate is not touched; one that fails the
\* key check is answered 403.
C7_AuthorizedEmptyHostIsBadRequest ==
    \A r \in Reqs :
        EmptyHost(r) =>
            /\ pc[r] = "done"
            /\ Untouched(r)
            /\ AnsweredWith(r, IF KeyMismatch(r) THEN StatusForbidden
                                                 ELSE StatusBadRequest)

\* 400 for each method value, with a matching key under a configured
\* credential
C7_Witness ==
    /\ apiKey # ""
    /\ \A m \in Methods : \E r \in Reqs :
          /\ EmptyHost(r)
          /\ query[r].method = m
          /\ query[r].key = apiKey
          /\ AnsweredWith(r, StatusBadRequest)

(* ---------------------------------------------------------------------- *)
(* C8                                                                      *)
(* ---------------------------------------------------------------------- *)

\* the probe of r has returned an error and the handler has answered
ProbeFailedAndAnswered(r) ==
    /\ probe[r].state = "returned"
    /\ probe[r].err # ""
    /\ pc[r] \in {"return", "done"}

\* the one response of r is a 200 whose body carries result 0 and the
\* probe's error message
FailureReported(r) ==
    /\ AnsweredWith(r, StatusOK)
    /\ "result" \in DOMAIN responses[r][1].body
    /\ responses[r][1].body.result = 0
    /\ "error" \in DOMAIN responses[r][1].body
    /\ responses[r][1].body.error = probe[r].err

\* C8: whenever the probe of an admitted request returns a failure (ping
\* exit status, unparsable output, transport error, cancellation during the
\* probe) the response has status 200 with result 0 and error set to the
\* failure message; no response to a probe failure has another status.
C8_ProbeFailureIs200 ==
    \A r \in Reqs :
        /\ ProbeFailedAndAnswered(r) => FailureReported(r)
        /\ probe[r].err # "" => Statuses(r) \subseteq {StatusOK}

\* a failed ping, an unparsable ping output and a failed HEAD request, each
\* answered 200 with result 0, one of them under a cancelled context
C8_Witness ==
    \E a, b, c \in Reqs :
        /\ ProbeFailedAndAnswered(a) /\ FailureReported(a)
        /\ probe[a].err = "ping failed: host unreachable or timeout"
        /\ ctxDone[a]
        /\ ProbeFailedAndAnswered(b) /\ FailureReported(b)
        /\ probe[b].err = "could not parse ping output"
        /\ ProbeFailedAndAnswered(c) /\ FailureReported(c)
        /\ probe[c].fn = "checkHTTP"

(* ---------------------------------------------------------------------- *)
(* C9                                                                      *)
(* ---------------------------------------------------------------------- *)

\* the envelope {host, type, result, error?}: result 0 when error is there
IsEnvelope(body) ==
    /\ {"host", "type", "result"} \subseteq DOMAIN body
    /\ DOMAIN body \subseteq {"host", "type", "result", "error"}
    /\ "error" \in DOMAIN body => body.result = 0

C10_AlwaysOneResponse ==
    \A r \in Reqs : pc[r] = "done" => Len(responses[r]) = 1

\* C10 amended: no request emits more than one response, and every request
\* whose handling has ended has emitted exactly one, except a request
\* abandoned at the select on cancellation, which has emitted none.
C10_OneResponseUnlessAbandoned ==
    \A r \in Reqs :
        /\ Len(responses[r]) <= 1
        /\ pc[r] = "done" =>
              Len(responses[r]) = (IF r \in Abandoned THEN 0 ELSE 1)

\* ended requests on three paths: abandoned at the select without a
\* response, answered before the select (400 or 403), and admitted and
\* answered 200
C10_Witness ==
    /\ \E r \in Abandoned : pc[r] = "done" /\ responses[r] = << >>
    /\ \E r \in Reqs : pc[r] = "done" /\ hist[r].gate = "none"
                       /\ Len(responses[r]) = 1
    /\ \E r \in Admitted : pc[r] = "done" /\ AnsweredWith(r, StatusOK)

(* ---------------------------------------------------------------------- *)
(* C12                                                                     *)
(* ---------------------------------------------------------------------- *)

\* the probe of r has been invoked
ProbeInvoked(r) == pc[r] \in {"probing", "respond", "return", "done"}
                   /\ r \in Admitted

\* the probe function, the scheme and the type the method value selects
SelectedBy(r, fn, scheme, type) ==
    /\ probe[r].fn = fn
    /\ probe[r].url.scheme = scheme
    /\ probe[r].type = type
    /\ Len(responses[r]) = 1 => responses[r][1].body.type = type

\* C12: for every admitted request, method = http invokes checkHTTP with
\* scheme http, method = https invokes checkHTTP with scheme https and any
\* other method value (an absent one too) invokes checkPing; exactly one
\* probe is invoked per admitted request and the type field of the response
\* is the selected one of ping, http, https.
C12_MethodSelectsProbe ==
    \A r \in Reqs :
        /\ hist[r].probes <= 1
        /\ hist[r].probes = (IF ProbeInvoked(r) THEN 1 ELSE 0)
        /\ (r \in Admitted /\ pc[r] = "done") => hist[r].probes = 1
        /\ ProbeInvoked(r) =>
              CASE query[r].method = "http" ->
                     SelectedBy(r, "checkHTTP", "http", "http")
                [] query[r].method = "https" ->
                     SelectedBy(r, "checkHTTP", "https", "https")
                [] OTHER ->
                     SelectedBy(r, "checkPing", "", "ping")

\* three answered requests, one per method value, with the three types
C12_Witness ==
    \E a, b, c \in Reqs :
        /\ query[a].method = "http" /\ AnsweredWith(a, StatusOK)
        /\ responses[a][1].body.type = "http" /\ hist[a].probes = 1
        /\ query[b].method = "https" /\ AnsweredWith(b, StatusOK)
        /\ responses[b][1].body.type = "https" /\ hist[b].probes = 1
        /\ query[c].method = "" /\ AnsweredWith(c, StatusOK)
        /\ responses[c][1].body.type = "ping" /\ hist[c].probes = 1
        /\ probe[c].fn = "checkPing"

(* ---------------------------------------------------------------------- *)
(* C13                                                                     *)
(* ---------------------------------------------------------------------- *)

\* C13: a 503 is issued only when all Limit slots are held at the moment the
\* request consults the gate; a request whose context is not cancelled and
\* that consults the gate while a slot is free is admitted in that very
\* step, never rejected and never left at the gate.
C13_BusyOnlyWhenFull ==
    [][\A r \in Reqs :
          Consults(r) =>
              /\ hist'[r].gate = "busy" =>
                    /\ concurrencyLimit = Limit
                    /\ AnsweredWith(r, StatusServiceUnavailable)'
              /\ StatusServiceUnavailable \in Statuses(r)' =>
                    concurrencyLimit = Limit
              /\ (~ctxDone[r] /\ concurrencyLimit < Limit) =>
                    /\ hist'[r].gate = "admitted"
                    /\ holds'[r]
                    /\ concurrencyLimit' = concurrencyLimit + 1
                    /\ responses'[r] = << >>]_vars

\* a request rejected at a full gate beside requests admitted at a gate
\* with room
C13_Witness ==
    /\ \E r \in Busy : hist[r].full /\ AnsweredWith(r, StatusServiceUnavailable)
    /\ \E r \in Admitted : ~hist[r].full /\ ~ctxDone[r]

(* ---------------------------------------------------------------------- *)
(* C14                                                                     *)
(* ---------------------------------------------------------------------- *)

\* the handler of r ends in this step without having been admitted: 403 or
\* 400 before the select, 503 or abandonment at the select
EndsUnadmitted(r) == pc[r] \in {"idle", "gate"} /\ pc'[r] = "done"

\* C14: a request that ends with 403, 400, 503 or silent abandonment leaves
\* the held-slot count and the holders as they were and invokes no probe;
\* on Busy in particular no probe is attempted and the request holds no
\* slot.
C14_UnadmittedLeavesGate ==
    [][\A r \in Reqs :
          EndsUnadmitted(r) =>
              /\ concurrencyLimit' = concurrencyLimit
              /\ holds' = holds
              /\ ~holds'[r]
              /\ probe' = probe
              /\ probe'[r] = NoProbe
              /\ hist'[r].probes = 0
              /\ hist'[r].acquires = 0
              /\ hist'[r].releases = 0]_vars

\* ended requests of three kinds while another request holds a slot: one
\* answered before the select, one abandoned at it, and the holder
C14_Witness ==
    /\ concurrencyLimit > 0
    /\ \E r \in Reqs : pc[r] = "done" /\ hist[r].gate = "none"
                       /\ Len(responses[r]) = 1 /\ Untouched(r)
    /\ \E r \in Abandoned : pc[r] = "done" /\ probe[r] = NoProbe

\* a request ended with 503 while the gate is full, no probe, no slot
C14_WitnessBusy ==
    \E r \in Busy : /\ pc[r] = "done" /\ concurrencyLimit = Limit
                    /\ probe[r] = NoProbe /\ ~holds[r]

(* ---------------------------------------------------------------------- *)
(* C15                                                                     *)
(* ---------------------------------------------------------------------- *)

\* the requests inside checkPing or checkHTTP
Probing == {r \in Reqs : probe[r].state = "running"}

\* C15: the requests inside checkPing or checkHTTP are a subset of the slot
\* holders, so at most Limit probes run at once; a request has released its
\* slot only after its probe has returned and its response has been
\* written.
C15_ProbeOnlyWhileHolding ==
    /\ Probing \subseteq Holders
    /\ Cardinality(Probing) <= Limit
    /\ \A r \in Reqs :
          /\ hist[r].probes > 0 /\ pc[r] # "done" => holds[r]
          /\ hist[r].releases > 0 =>
                /\ probe[r].state = "returned"
                /\ AnsweredWith(r, StatusOK)

\* Limit probes run at once
C15_Witness ==
    /\ Cardinality(Probing) = Limit
    /\ Probing \subseteq Holders

(* ---------------------------------------------------------------------- *)
(* C17                                                                     *)
(* ---------------------------------------------------------------------- *)

\* the status the order of the checks gives the request, 0 for none
ExpectedStatus(r) ==
    IF apiKey # "" /\ query[r].key # apiKey THEN StatusForbidden
    ELSE IF query[r].host = EmptyStr THEN StatusBadRequest
    ELSE IF r \in Busy THEN StatusServiceUnavailable
    ELSE IF r \in Admitted THEN StatusOK
    ELSE 0

\* C17: the checks run in the order authorization, host validation,
\* admission, probe, so the status of a response is determined: 403 iff a
\* credential is configured and the key differs; otherwise 400 iff the host
\* is empty; otherwise 503 iff the gate was full; 200 iff the request was
\* admitted.  With no credential configured no request is answered 403.
C17_StatusDetermined ==
    \A r \in Reqs :
        /\ \A i \in 1..Len(responses[r]) :
              /\ responses[r][i].status = ExpectedStatus(r)
              /\ responses[r][i].status = StatusServiceUnavailable
                    <=> (r \notin Admitted /\ hist[r].full)
              /\ responses[r][i].status = StatusOK <=> r \in Admitted
        /\ (pc[r] = "done" /\ r \notin Abandoned) =>
              AnsweredWith(r, ExpectedStatus(r))
        /\ apiKey = "" => StatusForbidden \notin Statuses(r)

\* with a credential: a 403 for a request whose host is empty too, a 400
\* and a 200
C17_Witness ==
    /\ apiKey # ""
    /\ \E r \in Reqs : /\ AnsweredWith(r, StatusForbidden)
                       /\ query[r].host = EmptyStr
    /\ \E r \in Reqs : AnsweredWith(r, StatusBadRequest)
    /\ \E r \in Reqs : AnsweredWith(r, StatusOK)

\* without a credential: requests with a key are answered 200 and 503
C17_WitnessNoCredential ==
    /\ apiKey = ""
    /\ \E r \in Reqs : query[r].key # "" /\ AnsweredWith(r, StatusOK)
    /\ \E r \in Reqs : query[r].key # ""
                       /\ AnsweredWith(r, StatusServiceUnavailable)

(* ---------------------------------------------------------------------- *)
(* C11                                                                     *)
(* ---------------------------------------------------------------------- *)

\* checkPing has returned from a run of ping that exited with status 0 and
\* printed the summary line min/avg/max/mdev = a/b/c/d
PingReturnedOnSummary ==
    /\ call.fn = "checkPing"
    /\ call.state = "returned"
    /\ ~call.cancelled
    /\ call.run.exit = 0
    /\ Len(call.stats) = 4

\* C11: on a successful ping whose summary line has the form
\* min/avg/max/mdev = a/b/c/d, checkPing returns the average b, the second
\* number, not the minimum or the maximum.
C11_PingReturnsAverage ==
    (PingReturnedOnSummary /\ call.err = "") =>
        call.result = ParseFloat(call.stats[2])

(* ---------------------------------------------------------------------- *)
(* C18                                                                     *)
(* ---------------------------------------------------------------------- *)

PingReturned == call.fn = "checkPing" /\ call.state = "returned"

\* the value checkPing parses from a summary line a/b/c/d
ParsedValue == ParseFloat(call.stats[3])

\* C18: checkPing returns success only with a strictly positive latency: if
\* the ping process exits non-zero (or is cancelled), or the summary pattern
\* is absent from its output, or the parsed value is not > 0, checkPing
\* returns an error and the response carries result 0; every 200 ping
\* response without an error field has result > 0.
C18_PingSuccessIsPositive ==
    PingReturned =>
        LET body == call.written[1].body
            fails == \/ call.cancelled
                     \/ call.run.exit # 0
                     \/ Len(call.stats) # 4
                     \/ ParsedValue <= 0
        IN  /\ call.err = "" => call.result > 0
            /\ fails <=> call.err # ""
            /\ call.err # "" => /\ call.result = 0
                                /\ body.result = 0
                                /\ "error" \in DOMAIN body
                                /\ body.error = call.err
            /\ "error" \notin DOMAIN body => body.result > 0
            /\ call.written[1].status = StatusOK

\* ping exited with status 0 and printed a summary whose parsed value is
\* 0.0: an error, result 0
C18_Witness ==
    /\ PingReturnedOnSummary
    /\ ParsedValue = 0
    /\ call.err = "invalid ping result: 0"
    /\ call.written[1].body.result = 0

(* ---------------------------------------------------------------------- *)
(* C19                                                                     *)
(* ---------------------------------------------------------------------- *)

HTTPReturned == call.fn = "checkHTTP" /\ call.state = "returned"

\* the scheme is the selected one and the response names the caller's host
SchemeAndHostKept ==
    /\ call.url.scheme = call.scheme
    /\ call.written[1].body.host = call.host
    /\ call.written[1].body.type = call.scheme

\* C19 as stated: for every host string the HEAD target is scheme://h where
\* h no longer begins with http:// or https://, the scheme is the one
\* selected by method, and the host field of the response is the caller's
\* unstripped host.
C19_TargetHasNoPrefix ==
    HTTPReturned =>
        /\ ~HasPrefix(call.url.host, HttpPrefix)
        /\ ~HasPrefix(call.url.host, HttpsPrefix)
        /\ SchemeAndHostKept

\* the prefixes checkHTTP leaves: it removes a leading http:// once and then
\* a leading https:// once
Remaining(ps) ==
    IF Len(ps) <= 1 THEN << >>
    ELSE IF ps = <<HttpPrefix, HttpsPrefix>> THEN << >>
    ELSE <<ps[2]>>

\* C19 amended: checkHTTP removes one leading http:// and then one leading
\* https://.  For a host with no prefix, one prefix, or http://https://, the
\* HEAD target is scheme://h where h begins with neither prefix; for a host
\* with another repeated prefix (http://http://, https://http://,
\* https://https://) h keeps the second prefix.  The scheme is the one
\* selected by method and the host field of the response is the caller's
\* unstripped host.
C19_TargetStripsOncePerPrefix ==
    HTTPReturned =>
        /\ call.url.host = Concat(Remaining(call.prefixes)) \o call.base
        /\ (Len(call.prefixes) <= 1
            \/ call.prefixes = <<HttpPrefix, HttpsPrefix>>) =>
              /\ call.url.host = call.base
              /\ ~HasPrefix(call.url.host, HttpPrefix)
              /\ ~HasPrefix(call.url.host, HttpsPrefix)
        /\ SchemeAndHostKept

\* host https://h probed with scheme http: the target is http://h and the
\* response names https://h
C19_Witness ==
    /\ HTTPReturned
    /\ call.prefixes = <<HttpsPrefix>>
    /\ call.base = HostH
    /\ call.scheme = "http"
    /\ call.url = [scheme |-> "http", host |-> HostH]
    /\ call.written[1].body.host = HttpsPrefix \o HostH

(* ---------------------------------------------------------------------- *)
(* C16                                                                     *)
(* ---------------------------------------------------------------------- *)

\* no handler is running
Quiescent == \A r \in Reqs : pc[r] \in {"idle", "done"}

\* C16: when every probe returns and the handlers are scheduled fairly,
\* every admitted request eventually releases its slot; no handler blocks
\* at the gate (a handler at the select can always take a step); once no
\* request is in flight the held-slot count is 0, so the send case of a
\* later request is ready.
C16_SlotsComeBack ==
    /\ \A r \in Reqs : (r \in Admitted) ~> (hist[r].releases = 1 /\ ~holds[r])
    /\ [](\A r \in Reqs : pc[r] = "gate" => ENABLED GateStep(r))
    /\ [](Quiescent => (concurrencyLimit = 0 /\ Holders = {} /\ SendReady))

\* after admissions up to the capacity and a rejection, every handler has
\* ended and all slots are back
C16_Witness ==
    /\ Quiescent
    /\ Cardinality(Admitted) = Limit
    /\ Busy # {}
    /\ \A r \in Admitted : hist[r].releases = 1
    /\ concurrencyLimit = 0

====
